---- MODULE Spec2Model ----
(***************************************************************************)
(* QuickMCP, src/core/server.ts: the session-scoped HTTP router of         *)
(* QuickMCPServer (setupSessionManagement) together with the parts of the  *)
(* MCP SDK it drives (StreamableHTTPServerTransport, McpServer).           *)
(*                                                                         *)
(* One step of the model is one run-to-completion turn of the Node event   *)
(* loop: an express handler up to the point where it hands a message to    *)
(* the engine, the completion of a registered handler, or a socket event.  *)
(* The awaits inside a turn (connect, handleRequest of an initialize or a  *)
(* DELETE) resolve without I/O and let no other request in.                *)
(*                                                                         *)
(* What the SDK does behind the calls of the router: connect(transport)    *)
(* makes the transport the engine's only transport and chains the engine's *)
(* own close handling behind transport.onclose; the transport hands every  *)
(* request to the engine on arrival and the engine answers on the          *)
(* transport it held at that moment; the transport runs onclose only from  *)
(* close(), which a DELETE calls; a closed socket only ends its stream.    *)
(*                                                                         *)
(* Further parts, each with a specification of its own: the stateless HTTP *)
(* handler, the registry and the engine's dispatch, start() and stop(),    *)
(* utils/response.ts and utils/helpers.ts on JavaScript values, and the    *)
(* adapters of middleware/auth.ts.                                         *)
(***************************************************************************)
EXTENDS Integers, FiniteSets, Sequences, TLC

\* Bounds of the model.
MaxTransports == 2      \* transports the router may construct
MaxRequests == 4        \* HTTP requests the clients may issue
MaxItems == 2           \* items of a content array or of a list
Points == 2             \* options.points of the rate limiter
MaxStarts == 2          \* start() calls that may be suspended at a time
MaxRetries == 2         \* maxRetries of Async.retry

\* `undefined`: a missing mcp-session-id header, a transport without a
\* session id, an engine without a transport.
Undefined == 0

\* Values the mcp-session-id header can carry; one more than can be minted,
\* so that an id unknown to the server always exists.
SessionIds == 1..(MaxTransports + 1)
Headers == {Undefined} \cup SessionIds

\* req.body: the JSON-RPC method, and whether the request passes the
\* transport's own checks (Accept header, JSON-RPC envelope).
Methods == {"initialize", "tools/call", "resources/read", "prompts/get"}
Bodies == [method : Methods, valid : BOOLEAN]

VARIABLES
    httpTransports,  \* this.httpTransports: session id -> transport
    transports,      \* every StreamableHTTPServerTransport constructed so far
    mcpServer,       \* this.mcpServer: the one engine, with its _transport
    inflight,        \* requests handed to the engine whose handler still runs
    sse,             \* transports with an open GET notification stream
    delivered,       \* responses of tool calls, in the order they were written
    last,            \* the HTTP exchange a session or 405 route handled last
    nReq,            \* number of HTTP requests handled so far
    gone,            \* sessions whose client has dropped its connections
    settled,         \* the handler call that settled last, and what became of it
    uncaught,        \* requests whose express handler let an exception escape
    slServers,       \* stateless mode: every McpServer built for a POST
    slTransports,    \* stateless mode: every transport built for a POST
    slExchanges,     \* stateless mode: the POST exchanges, by request number
    registry,        \* this.registry.tools: name -> handler
    engineTools,     \* the tools registered on this.mcpServer: name -> handler
    invoked,         \* the tool handlers the engine has invoked, in order
    toolOrder,       \* this.registry.tools: the keys in the Map's order
    resources,       \* this.registry.resources: the entries in the Map's order
    engineResources, \* the resources registered on this.mcpServer
    prompts,         \* this.registry.prompts: the entries in the Map's order
    enginePrompts,   \* the prompts registered on this.mcpServer
    registered,      \* the registration call made last, and how it ended
    isStarted,       \* this.isStarted
    starting,        \* start() calls suspended at their first await
    listening,       \* an HTTP listener of this server holds the port
    listenCalls,     \* httpApp.listen calls since the last stop
    arg,             \* the input of the helper or adapter under study
    ret,             \* what it returned or did with the response
    limiter,         \* RateLimiterMemory: points consumed, by key
    metrics,         \* MetricsMiddleware: this.metrics
    instances,       \* the QuickMCPServer instances constructed so far
    logger,          \* the module's logger: its config
    zodCache         \* SchemaCache: key -> the Zod schema built for it

\* The state of the session router, of the stateless handler and of the
\* registry; each specification below moves one of them.
sessionVars ==
    <<transports, mcpServer, inflight, sse, delivered, gone, settled, uncaught>>
statelessVars == <<slServers, slTransports, slExchanges>>
registryVars ==
    <<registry, engineTools, invoked, toolOrder, resources, engineResources,
      prompts, enginePrompts, registered>>
lifecycleVars == <<isStarted, starting, listening, listenCalls>>
adapterVars == <<limiter, metrics, instances, logger, zodCache>>
utilVars == <<arg, ret, adapterVars>>

vars == <<httpTransports, transports, mcpServer, inflight, sse, delivered,
          last, nReq, gone, settled, uncaught, slServers, slTransports, slExchanges,
          registry, engineTools, invoked, toolOrder, resources, engineResources,
          prompts, enginePrompts, registered, isStarted, starting, listening,
          listenCalls, arg, ret, limiter, metrics, instances, logger, zodCache>>

----------------------------------------------------------------------------
\* Helpers on the session table.

\* Map.set(key, value)
MapSet(m, k, v) == [x \in DOMAIN m \cup {k} |-> IF x = k THEN v ELSE m[x]]

\* Map.delete(key)
MapDelete(m, k) == [x \in DOMAIN m \ {k} |-> m[x]]

\* Session ids generated so far (the sessionId fields of the transports).
Minted == {transports[t].sessionId : t \in 1..Len(transports)} \ {Undefined}

----------------------------------------------------------------------------
\* The router's own code.

\* Faulty variant: every body counts as a handshake.
isInitializeRequestAlways(body) == TRUE

\* isInitializeRequest(body)
isInitializeRequest(body) == body.method = "initialize"

\* The first branch of POST /mcp: the header names a session of the table.
KnownSession(sessionId) ==
    sessionId # Undefined /\ sessionId \in DOMAIN httpTransports

\* Faulty variants of the handshake test: the header is not looked at; the
\* `!` of `!sessionId` is left out.
HandshakeAnyHeader(sessionId, body) == isInitializeRequest(body)

IsHandshakeWithHeader(sessionId, body) ==
    sessionId # Undefined /\ isInitializeRequest(body)

\* The second branch of POST /mcp: a handshake that carries no session id.
IsHandshake(sessionId, body) ==
    sessionId = Undefined /\ isInitializeRequest(body)

\* Faulty variant of the generator: it may return a value again.
randomUUIDRepeating == SessionIds

\* sessionIdGenerator: () => randomUUID(): a value it has not returned before.
\* The router only compares ids for equality, so which fresh value comes is
\* immaterial and the least one stands for all of them.
randomUUID ==
    {id \in SessionIds \ Minted : \A other \in SessionIds \ Minted : id <= other}

\* new StreamableHTTPServerTransport({sessionIdGenerator, onsessioninitialized})
NewTransport ==
    [sessionId |-> Undefined, initialized |-> FALSE, closed |-> FALSE,
     server |-> "none"]

\* Faulty variant of the callback: it stores under a key already in the table.
onsessioninitializedFirstKey(table, sessionId, t) ==
    MapSet(table, IF DOMAIN table = {} THEN sessionId
                  ELSE CHOOSE k \in DOMAIN table : TRUE, t)

\* onsessioninitialized: (sessionId) => this.httpTransports.set(sessionId, transport)
onsessioninitialized(table, sessionId, t) == MapSet(table, sessionId, t)

\* Faulty variant of the callback: the whole table is cleared.
oncloseClearsAll(table, tr) == [x \in {} |-> Undefined]

\* Faulty variant of the callback: the entry is not deleted.
oncloseKeepsEntry(table, tr) == table

\* transport.onclose = () => { if (transport.sessionId) delete table entry }
onclose(table, tr) ==
    IF tr.sessionId # Undefined THEN MapDelete(table, tr.sessionId) ELSE table

\* The guard of GET /mcp and DELETE /mcp: reject unless the id is in the table.
Rejects(sessionId) == ~KnownSession(sessionId)

----------------------------------------------------------------------------
\* The SDK, as the router drives it.

\* McpServer.connect(transport): the engine's _transport becomes `t`.
connect(server, t) == [server EXCEPT !.transport = t]

\* The other side of connect: the transport's onmessage now feeds the engine.
connected(tr, server) == [tr EXCEPT !.server = server.name]

\* Protocol._onclose, chained behind the transport's onclose by connect:
\* the engine drops its transport, whichever transport closed.
engineOnclose(server) == [server EXCEPT !.transport = Undefined]

\* The transport's own test for an initialize message.
isInitializationRequest(body) == body.method = "initialize"

\* An exchange as the client sees it. status 0: no response written (yet).
Exchange(n, verb, hdr, body, status, error, t, sid) ==
    [n |-> n, verb |-> verb, hdr |-> hdr, method |-> body.method,
     valid |-> body.valid, status |-> status, error |-> error, t |-> t,
     sessionHeader |-> sid]

NoBody == [method |-> "none", valid |-> TRUE]

----------------------------------------------------------------------------
\* transport.handleRequest(req, res, req.body) for a POST, entered with the
\* transports `trs` and the engine `srv` as the router has left them.
handlePost(n, t, hdr, body, trs, srv) ==
    IF ~body.valid
    THEN \* rejected by the transport before it looks at the method
         /\ transports' = trs
         /\ mcpServer' = srv
         /\ last' = Exchange(n, "POST", hdr, body, 400, "sdk", t, Undefined)
         /\ UNCHANGED <<httpTransports, inflight>>
    ELSE IF isInitializationRequest(body)
    THEN IF trs[t].initialized
         THEN \* "Invalid Request: Server already initialized"
              /\ transports' = trs
              /\ mcpServer' = srv
              /\ last' = Exchange(n, "POST", hdr, body, 400, "sdk", t, Undefined)
              /\ UNCHANGED <<httpTransports, inflight>>
         ELSE \E sessionId \in randomUUID :
                /\ transports' = [trs EXCEPT ![t].sessionId = sessionId,
                                              ![t].initialized = TRUE]
                /\ httpTransports' = onsessioninitialized(httpTransports, sessionId, t)
                /\ mcpServer' = srv
                \* the engine answers initialize in the same turn, on the
                \* transport it holds
                /\ last' = Exchange(n, "POST", hdr, body,
                                    IF srv.transport = t THEN 200 ELSE 0,
                                    "none", t, sessionId)
                /\ UNCHANGED inflight
    ELSE IF ~trs[t].initialized
    THEN \* "Bad Request: Server not initialized"
         /\ transports' = trs
         /\ mcpServer' = srv
         /\ last' = Exchange(n, "POST", hdr, body, 400, "sdk", t, Undefined)
         /\ UNCHANGED <<httpTransports, inflight>>
    ELSE IF hdr # trs[t].sessionId
    THEN \* validateSession: "Session not found"
         /\ transports' = trs
         /\ mcpServer' = srv
         /\ last' = Exchange(n, "POST", hdr, body, 404, "sdk", t, Undefined)
         /\ UNCHANGED <<httpTransports, inflight>>
    ELSE \* onmessage: the engine starts the handler and remembers the
         \* transport it holds at this moment for the response
         /\ transports' = trs
         /\ mcpServer' = srv
         /\ inflight' = inflight \cup
                {[n |-> n, t |-> t, captured |-> srv.transport, open |-> TRUE,
                  method |-> body.method]}
         /\ last' = Exchange(n, "POST", hdr, body, 0, "none", t, Undefined)
         /\ UNCHANGED httpTransports

\* this.httpApp.post('/mcp', ...)
PostMcp(sessionId, body) ==
    /\ nReq < MaxRequests
    /\ nReq' = nReq + 1
    /\ UNCHANGED <<statelessVars, registryVars, lifecycleVars, utilVars,
                   uncaught>>
    /\ UNCHANGED <<sse, delivered, gone, settled>>
    /\ IF KnownSession(sessionId)
       THEN handlePost(nReq + 1, httpTransports[sessionId], sessionId, body,
                       transports, mcpServer)
       ELSE IF IsHandshake(sessionId, body)
       THEN /\ Len(transports) < MaxTransports
            /\ LET t == Len(transports) + 1 IN
               handlePost(nReq + 1, t, sessionId, body,
                          Append(transports, connected(NewTransport, mcpServer)),
                          connect(mcpServer, t))
       ELSE /\ last' = Exchange(nReq + 1, "POST", sessionId, body, 400,
                                "jsonrpc-32000", Undefined, Undefined)
            /\ UNCHANGED <<httpTransports, transports, mcpServer, inflight>>

\* Where an exception can arise in the POST handler: in connect, or in
\* handleRequest before the transport has done anything.
Faults == {"connect", "handleRequest"}

\* POST /mcp when `fault` throws. The handler has no try/catch: the exception
\* leaves it, nothing is written to the response, and what was done before
\* the throw stays done.
PostMcpFault(sessionId, body, fault) ==
    /\ nReq < MaxRequests
    /\ nReq' = nReq + 1
    /\ uncaught' = uncaught \cup {nReq + 1}
    /\ UNCHANGED <<statelessVars, registryVars, lifecycleVars, utilVars>>
    /\ UNCHANGED <<httpTransports, inflight, sse, delivered, gone, settled>>
    /\ IF KnownSession(sessionId)
       THEN /\ fault = "handleRequest"
            /\ last' = Exchange(nReq + 1, "POST", sessionId, body, 0, "none",
                                httpTransports[sessionId], Undefined)
            /\ UNCHANGED <<transports, mcpServer>>
       ELSE /\ IsHandshake(sessionId, body)
            /\ Len(transports) < MaxTransports
            /\ LET t == Len(transports) + 1 IN
               /\ last' = Exchange(nReq + 1, "POST", sessionId, body, 0, "none",
                                   t, Undefined)
               /\ IF fault = "connect"
                  THEN /\ transports' = Append(transports, NewTransport)
                       /\ UNCHANGED mcpServer
                  ELSE /\ transports' = Append(transports,
                                               connected(NewTransport, mcpServer))
                       /\ mcpServer' = connect(mcpServer, t)

\* this.httpApp.get('/mcp', ...)
GetMcp(sessionId) ==
    /\ nReq < MaxRequests
    /\ nReq' = nReq + 1
    /\ UNCHANGED <<statelessVars, registryVars, lifecycleVars, utilVars,
                   uncaught>>
    /\ UNCHANGED <<httpTransports, transports, mcpServer, inflight, delivered, gone,
                   settled>>
    /\ IF Rejects(sessionId)
       THEN /\ last' = Exchange(nReq + 1, "GET", sessionId, NoBody, 400,
                                "text", Undefined, Undefined)
            /\ UNCHANGED sse
       ELSE LET t == httpTransports[sessionId] IN
            IF sessionId # transports[t].sessionId
            THEN /\ last' = Exchange(nReq + 1, "GET", sessionId, NoBody, 404,
                                     "sdk", t, Undefined)
                 /\ UNCHANGED sse
            ELSE IF t \in sse
            THEN \* "Conflict: Only one SSE stream is allowed per session"
                 /\ last' = Exchange(nReq + 1, "GET", sessionId, NoBody, 409,
                                     "sdk", t, Undefined)
                 /\ UNCHANGED sse
            ELSE /\ sse' = sse \cup {t}
                 /\ last' = Exchange(nReq + 1, "GET", sessionId, NoBody, 200,
                                     "none", t, Undefined)

\* transport.close(): every stream of the transport ends, then onclose runs:
\* the router's callback first, the engine's behind it.
closeTransport(t) ==
    /\ transports' = [transports EXCEPT ![t].closed = TRUE]
    /\ sse' = sse \ {t}
    /\ inflight' = {[r EXCEPT !.open = IF r.t = t THEN FALSE ELSE r.open] :
                      r \in inflight}
    /\ httpTransports' = onclose(httpTransports, transports[t])
    /\ mcpServer' = engineOnclose(mcpServer)

\* this.httpApp.delete('/mcp', ...)
DeleteMcp(sessionId) ==
    /\ nReq < MaxRequests
    /\ nReq' = nReq + 1
    /\ UNCHANGED <<statelessVars, registryVars, lifecycleVars, utilVars,
                   uncaught>>
    /\ UNCHANGED <<delivered, gone, settled>>
    /\ IF Rejects(sessionId)
       THEN /\ last' = Exchange(nReq + 1, "DELETE", sessionId, NoBody, 400,
                                "text", Undefined, Undefined)
            /\ UNCHANGED <<httpTransports, transports, mcpServer, inflight, sse>>
       ELSE LET t == httpTransports[sessionId] IN
            IF sessionId # transports[t].sessionId
            THEN /\ last' = Exchange(nReq + 1, "DELETE", sessionId, NoBody, 404,
                                     "sdk", t, Undefined)
                 /\ UNCHANGED <<httpTransports, transports, mcpServer, inflight, sse>>
            ELSE /\ closeTransport(t)
                 /\ last' = Exchange(nReq + 1, "DELETE", sessionId, NoBody, 200,
                                     "none", t, Undefined)

\* What the callback of a registered handler does when it is awaited.
Outcomes == {"returns", "throws"}

\* Faulty variant of the tool wrapper: the error is thrown on.
wrapToolHandlerRethrows(outcome) ==
    IF outcome = "throws"
    THEN [propagated |-> TRUE, result |-> "none"]
    ELSE [propagated |-> FALSE, result |-> "content"]

\* wrapToolHandler: the result is normalized; an error is caught and returned
\* as Response.response([Response.error(..)]).
wrapToolHandler(outcome) ==
    IF outcome = "throws"
    THEN [propagated |-> FALSE, result |-> "error-content"]
    ELSE [propagated |-> FALSE, result |-> "content"]

\* wrapResourceHandler: an error is logged and thrown again as a new Error.
wrapResourceHandler(outcome) ==
    IF outcome = "throws"
    THEN [propagated |-> TRUE, result |-> "none"]
    ELSE [propagated |-> FALSE, result |-> "contents"]

\* wrapPromptHandler: an error is logged and thrown again as a new Error.
wrapPromptHandler(outcome) ==
    IF outcome = "throws"
    THEN [propagated |-> TRUE, result |-> "none"]
    ELSE [propagated |-> FALSE, result |-> "messages"]

\* The wrapper registered for the kind of unit the method addresses.
Wrapped(method, outcome) ==
    CASE method = "tools/call" -> wrapToolHandler(outcome)
      [] method = "resources/read" -> wrapResourceHandler(outcome)
      [] OTHER -> wrapPromptHandler(outcome)

\* A registered handler finishes. The engine sends the response on the
\* transport it captured; that transport writes it to the stream of the
\* request, which it has only if the request arrived on it and the stream is
\* still open. Otherwise the response is written nowhere.
Complete(r) ==
    /\ r \in inflight
    /\ UNCHANGED <<statelessVars, registryVars, lifecycleVars, utilVars,
                   uncaught>>
    /\ inflight' = inflight \ {r}
    /\ delivered' = IF r.captured = r.t /\ r.open /\ ~transports[r.t].closed
                    THEN Append(delivered, [n |-> r.n, t |-> r.t])
                    ELSE delivered
    /\ \E outcome \in Outcomes :
          settled' = [n |-> r.n, t |-> r.t, method |-> r.method,
                      threw |-> (outcome = "throws"),
                      propagated |-> Wrapped(r.method, outcome).propagated,
                      result |-> Wrapped(r.method, outcome).result]
    /\ UNCHANGED <<httpTransports, transports, mcpServer, sse, last, nReq, gone>>

\* The client of a session goes away: its sockets close, and the transport
\* forgets their streams. The router has registered no listener for this,
\* and the transport does not call onclose.
ClientDrop(sessionId) ==
    /\ KnownSession(sessionId)
    /\ UNCHANGED <<statelessVars, registryVars, lifecycleVars, utilVars,
                   uncaught>>
    /\ sessionId \notin gone
    /\ gone' = gone \cup {sessionId}
    /\ LET t == httpTransports[sessionId] IN
       /\ sse' = sse \ {t}
       /\ inflight' = {[r EXCEPT !.open = IF r.t = t THEN FALSE ELSE r.open] :
                         r \in inflight}
    /\ UNCHANGED <<httpTransports, transports, mcpServer, delivered, last, nReq,
                   settled>>

----------------------------------------------------------------------------
\* No registration call has been made yet.
NoRegistration ==
    [kind |-> "none", name |-> "none", handler |-> "none", threw |-> FALSE]

\* The constructor: an empty session table, one engine, an empty registry.
Constructed ==
    /\ httpTransports = [x \in {} |-> Undefined]
    /\ transports = <<>>
    /\ mcpServer = [name |-> "mcpServer", transport |-> Undefined]
    /\ inflight = {}
    /\ sse = {}
    /\ delivered = <<>>
    /\ last = Exchange(0, "none", Undefined, NoBody, 0, "none", Undefined, Undefined)
    /\ nReq = 0
    /\ gone = {}
    /\ uncaught = {}
    /\ settled = [n |-> 0, t |-> Undefined, method |-> "none", threw |-> FALSE,
                  propagated |-> FALSE, result |-> "none"]
    /\ slServers = <<>>
    /\ slTransports = <<>>
    /\ slExchanges = <<>>
    /\ registry = [x \in {} |-> Undefined]
    /\ engineTools = [x \in {} |-> Undefined]
    /\ invoked = <<>>
    /\ toolOrder = <<>>
    /\ resources = <<>>
    /\ engineResources = <<>>
    /\ prompts = <<>>
    /\ enginePrompts = <<>>
    /\ registered = NoRegistration

\* After start() has completed once: the listener holds the port.
Started ==
    /\ isStarted = TRUE
    /\ starting = 0
    /\ listening = TRUE
    /\ listenCalls = 1

\* The adapters and the module's singletons after the constructor of one
\* HTTP server: an empty limiter, metrics and schema cache, and the logger as
\* the constructor configured it.
AdaptersIdle ==
    /\ limiter = [x \in {} |-> Undefined]
    /\ metrics = [totalRequests |-> 0, responseTimes |-> <<>>]
    /\ instances = <<[transport |-> "http", debug |-> FALSE]>>
    /\ logger = [level |-> "info", enabled |-> TRUE, useStderr |-> FALSE]
    /\ zodCache = [x \in {} |-> Undefined]

\* No helper or adapter is under study.
Idle ==
    /\ arg = [fn |-> "none"]
    /\ ret = [done |-> FALSE]
    /\ AdaptersIdle

\* The constructor, then start() with the HTTP transport.
Init == Constructed /\ Started /\ Idle

Next ==
    \/ \E h \in Headers, b \in Bodies : PostMcp(h, b)
    \/ \E h \in Headers : GetMcp(h)
    \/ \E h \in Headers : DeleteMcp(h)
    \/ \E r \in inflight : Complete(r)
    \/ \E s \in SessionIds : ClientDrop(s)

Spec == Init /\ [][Next]_vars

\* The session router when connect or handleRequest may throw.
FaultNext ==
    \/ \E h \in Headers, b \in Bodies : PostMcp(h, b)
    \/ \E h \in Headers, b \in Bodies, f \in Faults : PostMcpFault(h, b, f)
    \/ \E h \in Headers : GetMcp(h)
    \/ \E h \in Headers : DeleteMcp(h)
    \/ \E r \in inflight : Complete(r)
    \/ \E s \in SessionIds : ClientDrop(s)

FaultSpec == Init /\ [][FaultNext]_vars

\* The event loop runs every handler that is ready; clients owe nothing.
FairSpec == Spec /\ WF_vars(\E r \in inflight : Complete(r))

TypeOK ==
    /\ DOMAIN httpTransports \subseteq SessionIds
    /\ \A s \in DOMAIN httpTransports : httpTransports[s] \in 1..Len(transports)
    /\ Len(transports) <= MaxTransports
    /\ mcpServer.transport \in 0..Len(transports)
    /\ nReq \in 0..MaxRequests

----------------------------------------------------------------------------
\* Stateless mode: setupStatelessHttp.

\* Where an exception can arise in the stateless POST handler: while the
\* handlers are registered on the new engine, in connect, or in handleRequest
\* before the transport has written anything.
StatelessFaults == {"none", "register", "connect", "handleRequest"}

\* Faulty variant: every request uses the engine built for the first one.
SharedStatelessServer(servers) ==
    IF servers = <<>>
    THEN [servers |-> <<[transport |-> Undefined, closed |-> FALSE]>>, index |-> 1]
    ELSE [servers |-> servers, index |-> 1]

\* const server = new McpServer({...}): the engines after it, and its index.
NewStatelessServer(servers) ==
    [servers |-> Append(servers, [transport |-> Undefined, closed |-> FALSE]),
     index |-> Len(servers) + 1]

\* Faulty variant: the transport is given a session id generator.
StatelessTransportWithGenerator ==
    [sessionIdGenerator |-> TRUE, sessionId |-> Undefined, closed |-> FALSE,
     server |-> Undefined]

\* new StreamableHTTPServerTransport({ sessionIdGenerator: undefined })
StatelessTransport ==
    [sessionIdGenerator |-> FALSE, sessionId |-> Undefined, closed |-> FALSE,
     server |-> Undefined]

\* server.close(): the engine is closed, and so is the transport it holds.
serverClose(servers, trs, sv) ==
    LET held == servers[sv].transport IN
    [servers |-> [servers EXCEPT ![sv] = [transport |-> Undefined, closed |-> TRUE]],
     transports |-> IF held = Undefined THEN trs
                    ELSE [trs EXCEPT ![held].closed = TRUE]]

\* transport.close(): the transport is closed and its onclose runs, which is
\* the close handling of the engine connect has chained to it, if any.
transportClose(servers, trs, tr) ==
    LET sv == trs[tr].server IN
    [servers |-> IF sv = Undefined THEN servers
                 ELSE [servers EXCEPT ![sv].transport = Undefined],
     transports |-> [trs EXCEPT ![tr].closed = TRUE]]

\* Faulty variant of the listener: the engine is not closed.
closeListenerTransportOnly(servers, trs, sv, tr) == transportClose(servers, trs, tr)

\* res.on('close', () => { transport.close(); server.close(); })
closeListener(servers, trs, sv, tr) ==
    LET a == transportClose(servers, trs, tr) IN
    serverClose(a.servers, a.transports, sv)

\* Faulty variant of the 405 answer.
MethodNotAllowedAs400(n, verb) ==
    Exchange(n, verb, Undefined, NoBody, 400, "text", Undefined, Undefined)

\* res.status(405).json({jsonrpc, error: {code: -32000, "Method not allowed."}})
MethodNotAllowed(n, verb) ==
    Exchange(n, verb, Undefined, NoBody, 405, "jsonrpc-32000", Undefined, Undefined)

\* One POST exchange of stateless mode.
StatelessExchange(n, sv, tr, listener, status, error, sid, pending, captured) ==
    [n |-> n, server |-> sv, transport |-> tr, listener |-> listener,
     status |-> status, error |-> error, sessionHeader |-> sid,
     pending |-> pending, captured |-> captured, res |-> "open"]

\* The answer of the transport and the engine to the body, in the turn of
\* the request: <<status, error, session header, handler pending>>.
statelessHandle(tr, body) ==
    IF ~body.valid THEN <<400, "sdk", Undefined, FALSE>>
    ELSE IF isInitializationRequest(body)
    THEN <<200, "none", IF tr.sessionIdGenerator THEN 1 ELSE Undefined, FALSE>>
    ELSE IF tr.sessionIdGenerator
    THEN <<400, "sdk", Undefined, FALSE>>   \* "Server not initialized"
    ELSE <<0, "none", Undefined, TRUE>>

\* this.httpApp.post('/mcp', ...) of setupStatelessHttp. Neither the handler
\* nor a transport without session id generator reads the session header.
StatelessPost(body, fault) ==
    /\ nReq < MaxRequests
    /\ nReq' = nReq + 1
    /\ UNCHANGED <<httpTransports, sessionVars, registryVars, lifecycleVars, utilVars,
                   last>>
    /\ LET n == nReq + 1
           made == NewStatelessServer(slServers)
           sv == made.index
           tr == Len(slTransports) + 1
           catch(listener, trs, srvs) ==
               \* logger.error; headers not sent: 500 with -32603
               /\ slServers' = srvs
               /\ slTransports' = trs
               /\ slExchanges' = Append(slExchanges,
                     StatelessExchange(n, sv, IF listener THEN tr ELSE Undefined,
                                       listener, 500, "jsonrpc-32603",
                                       Undefined, FALSE, Undefined))
       IN
       IF fault = "register"
       THEN catch(FALSE, slTransports, made.servers)
       ELSE IF fault = "connect"
       THEN catch(TRUE, Append(slTransports, StatelessTransport), made.servers)
       ELSE LET trs == Append(slTransports,
                              [StatelessTransport EXCEPT !.server = sv])
                srvs == [made.servers EXCEPT ![sv].transport = tr]
            IN IF fault = "handleRequest"
               THEN catch(TRUE, trs, srvs)
               ELSE LET a == statelessHandle(trs[tr], body) IN
                    /\ slServers' = srvs
                    /\ slTransports' = trs
                    /\ slExchanges' = Append(slExchanges,
                          StatelessExchange(n, sv, tr, TRUE, a[1], a[2], a[3],
                                            a[4], srvs[sv].transport))

\* The handler of a stateless request settles: the engine sends the response
\* on the transport it captured, which writes it if the stream is still there.
StatelessComplete(i) ==
    /\ i \in 1..Len(slExchanges)
    /\ slExchanges[i].pending
    /\ LET x == slExchanges[i]
           written == /\ x.captured = x.transport
                      /\ x.res = "open"
                      /\ ~slTransports[x.transport].closed
       IN slExchanges' = [slExchanges EXCEPT
                             ![i].pending = FALSE,
                             ![i].status = IF written THEN 200 ELSE 0]
    /\ UNCHANGED <<httpTransports, sessionVars, registryVars, lifecycleVars, utilVars,
                   slServers,
                   slTransports, last, nReq>>

\* The 'close' event of the response of a stateless POST: the response has
\* been completed, or the connection was lost before that.
ResClose(i) ==
    /\ i \in 1..Len(slExchanges)
    /\ slExchanges[i].res = "open"
    /\ LET x == slExchanges[i]
           a == IF x.listener
                THEN closeListener(slServers, slTransports, x.server, x.transport)
                ELSE [servers |-> slServers, transports |-> slTransports]
       IN /\ slServers' = a.servers
          /\ slTransports' = a.transports
          /\ slExchanges' = [slExchanges EXCEPT ![i].res = "closed"]
    /\ UNCHANGED <<httpTransports, sessionVars, registryVars, lifecycleVars, utilVars,
                   last, nReq>>

\* this.httpApp.get('/mcp', ...) of setupStatelessHttp; it reads nothing of
\* the request.
StatelessGet ==
    /\ nReq < MaxRequests
    /\ nReq' = nReq + 1
    /\ last' = MethodNotAllowed(nReq + 1, "GET")
    /\ UNCHANGED <<httpTransports, sessionVars, registryVars, lifecycleVars, utilVars,
                   statelessVars>>

\* this.httpApp.delete('/mcp', ...) of setupStatelessHttp
StatelessDelete ==
    /\ nReq < MaxRequests
    /\ nReq' = nReq + 1
    /\ last' = MethodNotAllowed(nReq + 1, "DELETE")
    /\ UNCHANGED <<httpTransports, sessionVars, registryVars, lifecycleVars, utilVars,
                   statelessVars>>

\* startHttpServer with sessionManagement: false.
StatelessNext ==
    \/ \E b \in Bodies, f \in StatelessFaults : StatelessPost(b, f)
    \/ \E i \in 1..Len(slExchanges) : StatelessComplete(i)
    \/ \E i \in 1..Len(slExchanges) : ResClose(i)
    \/ StatelessGet
    \/ StatelessDelete

StatelessSpec == Init /\ [][StatelessNext]_vars

----------------------------------------------------------------------------
\* Tool registration and dispatch: tool(), registerToolWithMCP and the
\* engine's tools/call request handler.

ToolNames == {"add", "calculate"}
ToolHandlers == {"h1", "h2"}

\* HandlerRegistry.registerTool: this.tools.set(name, registration)
registerTool(tools, name, handler) == MapSet(tools, name, handler)

\* registerToolWithMCP: this.mcpServer.registerTool(name, config, handler).
\* The engine refuses a name it already holds ("Tool <name> is already
\* registered") and keeps the handler it has.
registerToolWithMCP(tools, name, handler) ==
    IF name \in DOMAIN tools
    THEN [tools |-> tools, threw |-> TRUE]
    ELSE [tools |-> MapSet(tools, name, handler), threw |-> FALSE]

\* The elements of a sequence.
Range(seq) == {seq[i] : i \in 1..Len(seq)}

\* Faulty variant: a key that is set again gets a second place.
keysAfterSetDuplicating(keys, name) == Append(keys, name)

\* Map.set and the order of the keys: a new key goes to the end, a key that
\* is already there keeps its place.
keysAfterSet(keys, name) ==
    IF name \in Range(keys) THEN keys ELSE Append(keys, name)

\* What a registration call leaves behind: the unit and whether it threw.
Registration(kind, name, handler, threw) ==
    [kind |-> kind, name |-> name, handler |-> handler, threw |-> threw]

\* server.tool(name, handler): the registry is written first, then the
\* engine; an exception of the second step leaves the first in place.
Tool(name, handler) ==
    /\ registry' = registerTool(registry, name, handler)
    /\ toolOrder' = keysAfterSet(toolOrder, name)
    /\ engineTools' = registerToolWithMCP(engineTools, name, handler).tools
    /\ registered' = Registration("tool", name, handler,
                        registerToolWithMCP(engineTools, name, handler).threw)
    /\ UNCHANGED <<invoked, resources, engineResources, prompts, enginePrompts>>
    /\ UNCHANGED <<httpTransports, sessionVars, statelessVars, last, nReq,
                   lifecycleVars, utilVars>>

\* The requests whose tools/call the engine has already dispatched.
Dispatched == {invoked[i].n : i \in 1..Len(invoked)}

\* The engine's tools/call handler for the forwarded request r of an ACTIVE
\* session, with params.name = name: it looks the name up in its own table
\* and calls that handler once; an unknown name is answered with an error
\* and calls nothing (handler Undefined). The engine takes the requests in
\* the order in which the router forwarded them.
CallTool(r, name) ==
    /\ r \in inflight
    /\ r.method = "tools/call"
    /\ r.n \notin Dispatched
    /\ \A q \in inflight :
          q.method = "tools/call" /\ q.n \notin Dispatched => r.n <= q.n
    /\ KnownSession(transports[r.t].sessionId)
    /\ invoked' = Append(invoked,
                         [n |-> r.n, name |-> name,
                          handler |-> IF name \in DOMAIN engineTools
                                      THEN engineTools[name] ELSE Undefined])
    /\ UNCHANGED <<registry, engineTools, toolOrder, resources, engineResources,
                   prompts, enginePrompts, registered>>
    /\ UNCHANGED <<httpTransports, sessionVars, statelessVars, last, nReq,
                   lifecycleVars, utilVars>>

\* Registration, the session router's POST route and the engine's dispatch.
RegistryNext ==
    \/ \E name \in ToolNames, handler \in ToolHandlers : Tool(name, handler)
    \/ \E h \in Headers, b \in Bodies : PostMcp(h, b)
    \/ \E r \in inflight, name \in ToolNames : CallTool(r, name)

RegistrySpec == Init /\ [][RegistryNext]_vars

----------------------------------------------------------------------------
\* Resources and prompts: resource(), prompt() and the listing of the
\* registry. A Map of the registry is the sequence of its entries in key
\* order. The calls pass no config, so a resource's URI is resource://<name>.

ResourceNames == {"config", "status"}
ResourceHandlers == {"r1", "r2"}
PromptNames == {"greet"}
PromptHandlers == {"p1", "p2"}

\* The keys of a Map, in its order.
MapKeys(m) == [i \in 1..Len(m) |-> m[i].name]

\* Map.get(name)
MapGet(m, name) ==
    IF name \in Range(MapKeys(m))
    THEN m[CHOOSE i \in 1..Len(m) : m[i].name = name].handler
    ELSE Undefined

\* Map.set(name, registration) on such a Map: an entry under that name is
\* replaced where it is, a new one is appended.
EntriesAfterSet(m, name, handler) ==
    LET keys == keysAfterSet(MapKeys(m), name) IN
    [i \in 1..Len(keys) |->
        IF keys[i] = name THEN [name |-> name, handler |-> handler]
        ELSE m[CHOOSE j \in 1..Len(m) : m[j].name = keys[i]]]

\* HandlerRegistry.registerResource: this.resources.set(name, registration)
registerResource(m, name, handler) == EntriesAfterSet(m, name, handler)

\* HandlerRegistry.registerPrompt: this.prompts.set(name, registration)
registerPrompt(m, name, handler) == EntriesAfterSet(m, name, handler)

\* registerResourceWithMCP: this.mcpServer.registerResource(name, uri, ...).
\* The engine refuses a URI it already holds.
registerResourceWithMCP(engine, name, handler) ==
    IF name \in DOMAIN engine
    THEN [units |-> engine, threw |-> TRUE]
    ELSE [units |-> MapSet(engine, name, handler), threw |-> FALSE]

\* registerPromptWithMCP: this.mcpServer.registerPrompt(name, config, handler).
\* The engine refuses a name it already holds.
registerPromptWithMCP(engine, name, handler) ==
    IF name \in DOMAIN engine
    THEN [units |-> engine, threw |-> TRUE]
    ELSE [units |-> MapSet(engine, name, handler), threw |-> FALSE]

\* server.resource(name, handler)
Resource(name, handler) ==
    /\ resources' = registerResource(resources, name, handler)
    /\ engineResources' =
           registerResourceWithMCP(engineResources, name, handler).units
    /\ registered' = Registration("resource", name, handler,
                 registerResourceWithMCP(engineResources, name, handler).threw)
    /\ UNCHANGED <<registry, engineTools, invoked, toolOrder, prompts,
                   enginePrompts>>
    /\ UNCHANGED <<httpTransports, sessionVars, statelessVars, last, nReq,
                   lifecycleVars, utilVars>>

\* server.prompt(name, handler)
Prompt(name, handler) ==
    /\ prompts' = registerPrompt(prompts, name, handler)
    /\ enginePrompts' = registerPromptWithMCP(enginePrompts, name, handler).units
    /\ registered' = Registration("prompt", name, handler,
                     registerPromptWithMCP(enginePrompts, name, handler).threw)
    /\ UNCHANGED <<registry, engineTools, invoked, toolOrder, resources,
                   engineResources>>
    /\ UNCHANGED <<httpTransports, sessionVars, statelessVars, last, nReq,
                   lifecycleVars, utilVars>>

\* HandlerRegistry.getTools: Array.from(this.tools.values())
getTools ==
    [i \in 1..Len(toolOrder) |->
        [name |-> toolOrder[i], handler |-> registry[toolOrder[i]]]]

\* HandlerRegistry.getResources
getResources == resources

\* HandlerRegistry.getPrompts
getPrompts == prompts

\* getStats(): the counts of the registry and the size of the session table.
getStats ==
    [isStarted |-> isStarted,
     tools |-> Len(getTools),
     resources |-> Len(getResources),
     prompts |-> Len(getPrompts),
     httpSessions |-> Cardinality(DOMAIN httpTransports)]

\* The registration calls of a program, in any order and number.
UnitsNext ==
    \/ \E name \in ToolNames, handler \in ToolHandlers : Tool(name, handler)
    \/ \E name \in ResourceNames, handler \in ResourceHandlers :
          Resource(name, handler)
    \/ \E name \in PromptNames, handler \in PromptHandlers :
          Prompt(name, handler)

UnitsSpec == Init /\ [][UnitsNext]_vars

----------------------------------------------------------------------------
\* utils/response.ts and the tool wrapper, on JavaScript values.
\*
\* A value is a record: t is its kind, str its characters (a string), its
\* JSON text (an object without a content array) or its other properties (an
\* object with one), num and bool its number and truth value, content says
\* whether it has a `content` property and of what kind, items are the
\* elements of an array or of the content array, cyclic says that
\* JSON.stringify throws on it. A content item is a record of its type and
\* its text; type "none" is an element that is no content item.

Value(t, str, num, bool, content, items, cyclic) ==
    [t |-> t, str |-> str, num |-> num, bool |-> bool, content |-> content,
     items |-> items, cyclic |-> cyclic]

StringValue(s) == Value("string", s, 0, FALSE, "absent", <<>>, FALSE)
NumberValue(n) == Value("number", "", n, FALSE, "absent", <<>>, FALSE)
BooleanValue(b) == Value("boolean", "", 0, b, "absent", <<>>, FALSE)
NullValue == Value("null", "", 0, FALSE, "absent", <<>>, FALSE)
UndefinedValue == Value("undefined", "", 0, FALSE, "absent", <<>>, FALSE)
FunctionValue == Value("function", "", 0, FALSE, "absent", <<>>, FALSE)
ArrayValue(items) == Value("array", "", 0, FALSE, "absent", items, FALSE)
\* an object without an array `content`, given by its JSON text
ObjectValue(jsonText, content) ==
    Value("object", jsonText, 0, FALSE, content, <<>>, FALSE)
CyclicObject == Value("object", "", 0, FALSE, "absent", <<>>, TRUE)
\* an object with an array `content` and possibly other properties
ContentObject(items, others) ==
    Value("object", others, 0, FALSE, "array", items, FALSE)

\* text(content)
text(content) == [type |-> "text", text |-> content]

\* String(value) of a string, a number or a boolean
String(value) ==
    CASE value.t = "string" -> value.str
      [] value.t = "number" -> ToString(value.num)
      [] OTHER -> IF value.bool THEN "true" ELSE "false"

\* JSON.stringify of a content item or of another array element
ItemJSON(item) ==
    IF item.type = "none" THEN item.text
    ELSE "{\"type\":" \o ToString(item.type) \o ",\"text\":"
             \o ToString(item.text) \o "}"

RECURSIVE JoinJSON(_)
JoinJSON(items) ==
    IF Len(items) = 0 THEN ""
    ELSE IF Len(items) = 1 THEN ItemJSON(items[1])
    ELSE ItemJSON(items[1]) \o "," \o JoinJSON(Tail(items))

\* JSON.stringify(data, null, 2), indentation left out. It returns undefined
\* for undefined and for a function, and throws on a cyclic structure.
JSONstringify(data) ==
    CASE data.t = "string" -> ToString(data.str)
      [] data.t \in {"number", "boolean"} -> String(data)
      [] data.t = "null" -> "null"
      [] data.t = "array" -> "[" \o JoinJSON(data.items) \o "]"
      [] data.t = "object" /\ data.content = "array" ->
            "{\"content\":[" \o JoinJSON(data.items) \o "]"
                \o (IF data.str = "" THEN "" ELSE "," \o data.str) \o "}"
      [] data.t = "object" -> data.str
      [] OTHER -> "undefined"

\* json(data)
json(data) == text(JSONstringify(data))

\* error(message)
error(message) == text("Error: " \o message)

\* response(content)
response(content) == ContentObject(content, "")

\* JavaScript's typeof and truthiness
typeof(value) ==
    IF value.t \in {"null", "array"} THEN "object" ELSE value.t

Truthy(value) ==
    CASE value.t = "string" -> value.str # ""
      [] value.t = "number" -> value.num # 0
      [] value.t = "boolean" -> value.bool
      [] value.t \in {"null", "undefined"} -> FALSE
      [] OTHER -> TRUE

\* What a call leaves: a value, or an exception.
Returned(value) == [threw |-> FALSE, value |-> value]
Thrown == [threw |-> TRUE, value |-> UndefinedValue]

\* Faulty variant: every falsy value takes the fallback.
normalizeResponseFalsyFallback(value) ==
    IF ~Truthy(value)
    THEN Returned(response(<<text("No response")>>))
    ELSE IF typeof(value) = "object" /\ value.content = "array"
    THEN Returned(value)
    ELSE IF typeof(value) \in {"string", "number", "boolean"}
    THEN Returned(response(<<text(String(value))>>))
    ELSE IF typeof(value) = "object"
    THEN IF value.cyclic THEN Thrown ELSE Returned(response(<<json(value)>>))
    ELSE Returned(response(<<text("No response")>>))

\* normalizeResponse(value)
normalizeResponse(value) ==
    IF Truthy(value) /\ typeof(value) = "object" /\ value.content = "array"
    THEN Returned(value)
    ELSE IF typeof(value) \in {"string", "number", "boolean"}
    THEN Returned(response(<<text(String(value))>>))
    ELSE IF typeof(value) = "object" /\ value.t # "null"
    THEN IF value.cyclic THEN Thrown ELSE Returned(response(<<json(value)>>))
    ELSE Returned(response(<<text("No response")>>))

\* The function wrapToolHandler returns, applied to a handler that ends with
\* `outcome`: the handler's value is normalized, and an exception of the
\* handler or of the normalization becomes an error response.
wrappedToolHandler(outcome, value) ==
    IF outcome = "throws" \/ normalizeResponse(value).threw
    THEN response(<<error("Tool execution failed: " \o "message")>>)
    ELSE normalizeResponse(value).value

\* Faulty variant of the decorator's wrapper: the method's result is always
\* serialized, a response included.
decoratorWrappedHandlerAlwaysJson(outcome, value) ==
    IF outcome = "throws" \/ value.cyclic
    THEN [outcome |-> "throws", value |-> UndefinedValue]
    ELSE [outcome |-> "returns", value |-> response(<<json(value)>>)]

\* The handler the @tool decorator registers, applied to a method that ends
\* with `outcome`: the method's value is normalized, and an exception of the
\* method or of the normalization leaves the handler.
decoratorWrappedHandler(outcome, value) ==
    IF outcome = "throws" \/ normalizeResponse(value).threw
    THEN [outcome |-> "throws", value |-> UndefinedValue]
    ELSE [outcome |-> "returns", value |-> normalizeResponse(value).value]

\* The values a handler is made to return.
Items ==
    {text("Hi"), json(NumberValue(42)),
     [type |-> "resource_link", text |-> "file:///a"],
     [type |-> "none", text |-> "42"]}
ItemSeqs == UNION {[1..n -> Items] : n \in 0..MaxItems}
Values ==
    {StringValue(s) : s \in {"", "Hello World"}}
    \cup {NumberValue(n) : n \in {-1, 0, 42}}
    \cup {BooleanValue(b) : b \in BOOLEAN}
    \cup {NullValue, UndefinedValue, FunctionValue, CyclicObject}
    \cup {ObjectValue("{}", "absent"), ObjectValue("{\"result\":42}", "absent"),
          ObjectValue("{\"content\":\"Hi\"}", "string")}
    \cup {ArrayValue(items) : items \in ItemSeqs}
    \cup {ContentObject(items, others) :
            items \in ItemSeqs, others \in {"", "\"isError\":true"}}

\* A tool call reaches the wrapped handler: the handler runs and the wrapper
\* returns. The handler is the bare method, or the method as the decorator
\* wrapped it (autoRegister passes that one to server.tool).
WrappedToolCall ==
    /\ arg.fn = "tool"
    /\ ~ret.done
    /\ ret' = [done |-> TRUE,
               value |->
                 IF arg.decorated
                 THEN wrappedToolHandler(
                        decoratorWrappedHandler(arg.outcome, arg.value).outcome,
                        decoratorWrappedHandler(arg.outcome, arg.value).value)
                 ELSE wrappedToolHandler(arg.outcome, arg.value)]
    /\ UNCHANGED <<arg, adapterVars>>
    /\ UNCHANGED <<httpTransports, sessionVars, statelessVars, registryVars,
                   lifecycleVars, last, nReq>>

\* A tool handler that is about to return any of the values, or to throw.
NormalizeInit ==
    /\ Constructed /\ Started
    /\ arg \in [fn : {"tool"}, outcome : Outcomes, value : Values,
                 decorated : BOOLEAN]
    /\ ret = [done |-> FALSE]
    /\ AdaptersIdle

NormalizeSpec == NormalizeInit /\ [][WrappedToolCall]_vars

----------------------------------------------------------------------------
\* middleware/auth.ts: AuthMiddleware. A request carries an Authorization
\* header (its scheme and what follows it) and possibly an x-api-key header;
\* "" stands for a header or token that is absent or empty, which the code
\* does not tell apart (!authHeader, !token). What jwt.verify, bcrypt and
\* the configured callbacks do with a token is an input. next() is express's
\* continuation, which hands a failing downstream handler to the error
\* handlers and does not throw back into the middleware.

AuthRequests ==
    [fn : {"auth"},
     scheme : {"", "Bearer ", "ApiKey ", "Basic "},
     credentials : {"", "t1"}, xApiKey : {"", "t1"},
     type : {"bearer", "api-key", "oauth2", "custom"},
     secret : BOOLEAN,                   \* config.secret is set
     jwtVerifies : BOOLEAN,              \* jwt.verify(token, secret) returns
     apiKeys : {"undefined", "empty", "some"},
     keyMatches : BOOLEAN,               \* bcrypt.compareSync for some key
     verify : {"undefined", "true", "false", "throws"},
     extractUser : {"undefined", "returns", "throws"}]

\* extractToken(req)
extractToken(req) ==
    IF req.scheme = "" THEN req.xApiKey
    ELSE IF req.scheme = "Bearer " THEN req.credentials
    ELSE IF req.scheme = "ApiKey " THEN req.credentials
    ELSE ""

\* validateJWT(token): every exception inside is caught and gives false.
validateJWT(req) == req.secret /\ req.jwtVerifies

\* validateApiKey(token)
validateApiKey(req) ==
    IF req.apiKeys \in {"undefined", "empty"} THEN FALSE ELSE req.keyMatches

\* Faulty variant: a type without a validator is accepted.
validateTokenDefaultAccepts(req) ==
    CASE req.type = "bearer" -> Returned(validateJWT(req))
      [] req.type = "api-key" -> Returned(validateApiKey(req))
      [] req.type = "custom" ->
            IF req.verify = "undefined" THEN Returned(FALSE)
            ELSE IF req.verify = "throws" THEN [threw |-> TRUE, value |-> FALSE]
            ELSE Returned(req.verify = "true")
      [] OTHER -> Returned(TRUE)

\* validateToken(token): a boolean, or the exception of config.verify
validateToken(req) ==
    CASE req.type = "bearer" -> Returned(validateJWT(req))
      [] req.type = "api-key" -> Returned(validateApiKey(req))
      [] req.type = "custom" ->
            IF req.verify = "undefined" THEN Returned(FALSE)
            ELSE IF req.verify = "throws" THEN [threw |-> TRUE, value |-> FALSE]
            ELSE Returned(req.verify = "true")
      [] OTHER -> Returned(FALSE)

\* What the middleware has done with the request: the calls of next(), the
\* status and JSON-RPC error code it has sent (0: nothing sent), and the
\* fields it has set on the request.
AuthOutcome(nextCalls, status, code, details, authType) ==
    [done |-> TRUE, nextCalls |-> nextCalls, status |-> status, code |-> code,
     details |-> details, authType |-> authType]

\* unauthorized(res, message)
unauthorized(message) == AuthOutcome(0, 401, -32001, message, "")

\* middleware(req, res, next)
authMiddleware(req) ==
    IF extractToken(req) = ""
    THEN unauthorized("No authentication token provided")
    ELSE IF validateToken(req).threw
    THEN unauthorized("Authentication failed")
    ELSE IF ~validateToken(req).value
    THEN unauthorized("Invalid authentication token")
    ELSE IF req.extractUser = "throws"
    THEN unauthorized("Authentication failed")
    ELSE AuthOutcome(1, 0, 0, "", req.type)

\* The middleware runs for the request.
AuthMiddleware ==
    /\ arg.fn = "auth"
    /\ ~ret.done
    /\ ret' = authMiddleware(arg)
    /\ UNCHANGED <<arg, adapterVars>>
    /\ UNCHANGED <<httpTransports, sessionVars, statelessVars, registryVars,
                   lifecycleVars, last, nReq>>

\* Any request under any configuration.
AuthInit ==
    /\ Constructed /\ Started
    /\ arg \in AuthRequests
    /\ ret = [done |-> FALSE]
    /\ AdaptersIdle

AuthSpec == AuthInit /\ [][AuthMiddleware]_vars

----------------------------------------------------------------------------
\* middleware/auth.ts: RateLimitMiddleware over RateLimiterMemory. The
\* limiter counts the points consumed under a key until the key's window
\* (options.duration) is over; a consume is counted also when it is refused.

\* req.ip; "" is a request without one.
Ips == {"", "10.0.0.1", "10.0.0.2"}

\* rejRes.msBeforeNext: what is left of the window, in milliseconds.
MsBeforeNext == {0, 400, 1500}

\* req.ip || 'anonymous'
limiterKey(ip) == IF ip = "" THEN "anonymous" ELSE ip

\* The points consumed under a key in its current window.
consumedPoints(lim, key) == IF key \in DOMAIN lim THEN lim[key] ELSE 0

\* limiter.consume(key): the count goes up by one, and the call is refused
\* when the count is then above options.points.
consume(lim, key) ==
    [limiter |-> MapSet(lim, key, consumedPoints(lim, key) + 1),
     rejected |-> consumedPoints(lim, key) + 1 > Points]

\* What the middleware has done with the request.
RateLimitOutcome(nextCalls, status, code, retryAfter) ==
    [done |-> TRUE, nextCalls |-> nextCalls, status |-> status, code |-> code,
     retryAfter |-> retryAfter]

\* Math.round(msBeforeNext / 1000), with msBeforeNext = rejRes.msBeforeNext || 1000
RoundSeconds(ms) == ((IF ms = 0 THEN 1000 ELSE ms) + 500) \div 1000

\* Faulty variant: next() is called after the 429 as well.
rateLimitMiddlewareAlwaysNext(rejected, ms) ==
    IF rejected
    THEN RateLimitOutcome(1, 429, -32000, ToString(RoundSeconds(ms)))
    ELSE RateLimitOutcome(1, 0, 0, "")

\* middleware(req, res, next), given what consume did: next(), or the
\* Retry-After header and 429 with a JSON-RPC error body.
rateLimitMiddleware(rejected, ms) ==
    IF rejected
    THEN RateLimitOutcome(0, 429, -32000, ToString(RoundSeconds(ms)))
    ELSE RateLimitOutcome(1, 0, 0, "")

\* A request passes the rate-limit middleware.
RateLimit(ip, ms) ==
    /\ nReq < MaxRequests
    /\ nReq' = nReq + 1
    /\ arg' = [fn |-> "rateLimit", ip |-> ip]
    /\ limiter' = consume(limiter, limiterKey(ip)).limiter
    /\ ret' = rateLimitMiddleware(consume(limiter, limiterKey(ip)).rejected, ms)
    /\ UNCHANGED <<metrics, instances, logger, zodCache>>
    /\ UNCHANGED <<httpTransports, sessionVars, statelessVars, registryVars,
                   lifecycleVars, last>>

\* The window of a key is over: the limiter forgets the key.
Expire(key) ==
    /\ key \in DOMAIN limiter
    /\ limiter' = MapDelete(limiter, key)
    /\ UNCHANGED <<arg, ret, metrics, instances, logger, zodCache>>
    /\ UNCHANGED <<httpTransports, sessionVars, statelessVars, registryVars,
                   lifecycleVars, last, nReq>>

RateLimitNext ==
    \/ \E ip \in Ips, ms \in MsBeforeNext : RateLimit(ip, ms)
    \/ \E ip \in Ips : Expire(limiterKey(ip))

RateLimitSpec == Init /\ [][RateLimitNext]_vars

----------------------------------------------------------------------------
\* utils/helpers.ts: Responses.success, Responses.error, Responses.list.

\* JSON.stringify({ items, count: items.length }, null, 2)
ListJSON(items) ==
    "{\"items\":[" \o JoinJSON(items) \o "],\"count\":"
        \o ToString(Len(items)) \o "}"

\* Faulty variant: the message is put behind the data.
ResponsesSuccessMessageLast(data, message) ==
    IF data.cyclic THEN Thrown
    ELSE IF Truthy(message)
    THEN Returned(response(<<json(data), text(message.str)>>))
    ELSE Returned(response(<<json(data)>>))

\* Responses.success(data, message?)
ResponsesSuccess(data, message) ==
    IF data.cyclic THEN Thrown
    ELSE IF Truthy(message)
    THEN Returned(response(<<text(message.str)>> \o <<json(data)>>))
    ELSE Returned(response(<<json(data)>>))

\* Responses.error(message, details?)
ResponsesError(message, details) ==
    IF Truthy(details)
    THEN IF details.cyclic THEN Thrown
         ELSE Returned(response(<<error(message.str)>> \o <<json(details)>>))
    ELSE Returned(response(<<error(message.str)>>))

\* Responses.list(items, message?)
ResponsesList(items, message) ==
    Returned(response((IF Truthy(message) THEN <<text(message.str)>> ELSE <<>>)
                      \o <<text(ListJSON(items))>>))

\* The optional message: left out, empty, or a text.
Messages == {UndefinedValue, StringValue(""), StringValue("Done")}

\* The data and details handed to the helpers.
Data ==
    {StringValue("Hello World"), NumberValue(0), NumberValue(42),
     BooleanValue(FALSE), NullValue, UndefinedValue, CyclicObject,
     ObjectValue("{\"result\":42}", "absent"), ArrayValue(<<>>),
     ContentObject(<<text("Hi")>>, "")}

HelperCalls ==
    [fn : {"success"}, data : Data, message : Messages, items : {<<>>}]
    \cup [fn : {"error"}, data : Data,
          message : {StringValue(""), StringValue("Failed")}, items : {<<>>}]
    \cup [fn : {"list"}, data : {UndefinedValue}, message : Messages,
          items : ItemSeqs]

\* The helper is called.
HelperCall ==
    /\ arg.fn \in {"success", "error", "list"}
    /\ ~ret.done
    /\ LET call ==
             CASE arg.fn = "success" -> ResponsesSuccess(arg.data, arg.message)
               [] arg.fn = "error" -> ResponsesError(arg.message, arg.data)
               [] OTHER -> ResponsesList(arg.items, arg.message)
       IN ret' = [done |-> TRUE, threw |-> call.threw, value |-> call.value]
    /\ UNCHANGED <<arg, adapterVars>>
    /\ UNCHANGED <<httpTransports, sessionVars, statelessVars, registryVars,
                   lifecycleVars, last, nReq>>

\* Any call of one of the three helpers.
HelpersInit ==
    /\ Constructed /\ Started
    /\ arg \in HelperCalls
    /\ ret = [done |-> FALSE]
    /\ AdaptersIdle

HelpersSpec == HelpersInit /\ [][HelperCall]_vars

----------------------------------------------------------------------------
\* start() and stop(), with the HTTP transport and session management.
\*
\* start() runs up to its first await (inside startHttpServer, after the
\* routes are set up) and is resumed from the microtask queue: there it calls
\* httpApp.listen and sets isStarted. A second start() can be called before
\* the first is resumed. stop() has no await and runs in one piece; it does
\* not close the listener. Requests arrive only when a listener holds the
\* port and no start() waits to be resumed.

\* The fields stop() reads or writes, directly or through transport.close().
Server ==
    [isStarted |-> isStarted, httpTransports |-> httpTransports,
     transports |-> transports, mcpServer |-> mcpServer, sse |-> sse,
     inflight |-> inflight]

\* transport.close() on the server `s`: see closeTransport.
closed(s, t) ==
    [s EXCEPT !.transports = [s.transports EXCEPT ![t].closed = TRUE],
              !.sse = s.sse \ {t},
              !.inflight = {[r EXCEPT !.open = IF r.t = t THEN FALSE ELSE r.open] :
                              r \in s.inflight},
              !.httpTransports = onclose(s.httpTransports, s.transports[t]),
              !.mcpServer = engineOnclose(s.mcpServer)]

\* for (const transport of table.values()) transport.close()
RECURSIVE closeAll(_, _)
closeAll(s, ts) ==
    IF ts = {} THEN s
    ELSE LET t == CHOOSE x \in ts : TRUE IN closeAll(closed(s, t), ts \ {t})

\* this.mcpServer.close(): the engine closes the transport it holds, if any.
engineClose(s) ==
    IF s.mcpServer.transport = Undefined THEN s
    ELSE closed(s, s.mcpServer.transport)

\* Faulty variant: the table is cleared but its transports are left open.
stopLeavesTransportsOpen(s) ==
    IF ~s.isStarted THEN s
    ELSE [engineClose([s EXCEPT !.httpTransports = [x \in {} |-> Undefined]])
            EXCEPT !.isStarted = FALSE]

\* stop()
stop(s) ==
    IF ~s.isStarted THEN s
    ELSE [engineClose(
            [closeAll(s, {s.httpTransports[k] : k \in DOMAIN s.httpTransports})
                EXCEPT !.httpTransports = [x \in {} |-> Undefined]])
            EXCEPT !.isStarted = FALSE]

\* A call of stop().
Stop ==
    /\ isStarted' = stop(Server).isStarted
    /\ httpTransports' = stop(Server).httpTransports
    /\ transports' = stop(Server).transports
    /\ mcpServer' = stop(Server).mcpServer
    /\ sse' = stop(Server).sse
    /\ inflight' = stop(Server).inflight
    /\ listenCalls' = IF isStarted THEN 0 ELSE listenCalls
    /\ UNCHANGED <<starting, listening, delivered, gone, settled, uncaught,
                   last, nReq>>
    /\ UNCHANGED <<statelessVars, registryVars, utilVars>>

\* A call of start(), up to its first await: it returns at once when the
\* server is started, and otherwise builds the express app and its routes.
Start ==
    /\ IF isStarted THEN UNCHANGED starting
       ELSE starting < MaxStarts /\ starting' = starting + 1
    /\ UNCHANGED <<isStarted, listening, listenCalls>>
    /\ UNCHANGED <<httpTransports, sessionVars, statelessVars, registryVars,
                   utilVars, last, nReq>>

\* A suspended start() is resumed: httpApp.listen(port), then isStarted = true.
StartResume ==
    /\ starting > 0
    /\ starting' = starting - 1
    /\ listenCalls' = listenCalls + 1
    /\ listening' = TRUE
    /\ isStarted' = TRUE
    /\ UNCHANGED <<httpTransports, sessionVars, statelessVars, registryVars,
                   utilVars, last, nReq>>

\* A request can reach the routes.
Reachable == listening /\ starting = 0

\* The constructor only: start() has not been called.
LifecycleInit ==
    /\ Constructed /\ Idle
    /\ isStarted = FALSE
    /\ starting = 0
    /\ listening = FALSE
    /\ listenCalls = 0

LifecycleNext ==
    \/ Start
    \/ StartResume
    \/ Stop
    \/ Reachable /\ \E h \in Headers, b \in Bodies : PostMcp(h, b)
    \/ Reachable /\ \E h \in Headers : DeleteMcp(h)

LifecycleSpec == LifecycleInit /\ [][LifecycleNext]_vars

----------------------------------------------------------------------------
\* Reading a resource. The SDK calls the callback registered for a static
\* resource with (uri, extra) and the one registered for a template with
\* (uri, variables, extra), uri being a URL object. What the resource handler
\* receives as its one argument is recorded by the properties it can read
\* from it: href (a URL has one), uri and params; "undefined" is a property
\* the argument does not have.

\* registerResourceWithMCP, the callback registered on this.mcpServer:
\* resource.handler({ uri: uri.href, params }), or { uri: uri.href } for a
\* static resource.
registerResourceWithMCPCallback(isTemplate, href, variables) ==
    [href |-> "undefined", uri |-> href,
     params |-> IF isTemplate THEN variables ELSE "undefined"]

\* The stateless handler registers resource.handler itself as the callback:
\* the handler's argument is the URL.
statelessResourceCallback(isTemplate, href, variables) ==
    [href |-> href, uri |-> "undefined", params |-> "undefined"]

\* A resources/read request reaches the handler of a resource, through the
\* long-lived engine or through the engine of a stateless request.
ReadResource(mode, isTemplate, href, variables) ==
    /\ nReq < MaxRequests
    /\ nReq' = nReq + 1
    /\ arg' = [fn |-> "read", mode |-> mode, isTemplate |-> isTemplate,
               href |-> href, variables |-> variables]
    /\ ret' = [done |-> TRUE,
               args |-> IF mode = "stateless"
                        THEN statelessResourceCallback(isTemplate, href, variables)
                        ELSE registerResourceWithMCPCallback(isTemplate, href,
                                                             variables)]
    /\ UNCHANGED adapterVars
    /\ UNCHANGED <<httpTransports, sessionVars, statelessVars, registryVars,
                   lifecycleVars, last>>

ReadSpec ==
    Init /\ [][\E mode \in {"session", "stateless"}, isTemplate \in BOOLEAN,
                  href \in {"resource://config", "resource://status",
                            "users://1/profile", "users://2/profile"},
                  variables \in {"{\"id\":\"1\"}", "{\"id\":\"2\"}"} :
                 ReadResource(mode, isTemplate, href, variables)]_vars

----------------------------------------------------------------------------
\* utils/helpers.ts: Async.retry(fn, maxRetries, baseDelay). arg holds the
\* call: maxRetries, baseDelay and, for each call of fn in turn, whether its
\* promise fulfils or rejects. ret holds the retry in progress: the loop
\* index i, where it stands (pc), the number of calls of fn made (calls) and
\* still unsettled (pending), lastError, and the delay it sleeps for. The
\* value an attempt fulfils with, and the error it rejects with, is the
\* number of the attempt; 0 is `undefined`.

\* for (let i = 0; i <= maxRetries; i++) { ... fn() ...: the loop test, then
\* the call. After the loop, throw lastError.
RetryCall ==
    /\ arg.fn = "retry" /\ ret.pc = "loop"
    /\ ret' = IF ret.i <= arg.maxRetries
              THEN [ret EXCEPT !.pc = "await", !.calls = @ + 1,
                               !.pending = @ + 1]
              ELSE [ret EXCEPT !.pc = "rejected", !.done = TRUE,
                               !.value = ret.lastError]
    /\ UNCHANGED <<arg, adapterVars>>
    /\ UNCHANGED <<httpTransports, sessionVars, statelessVars, registryVars,
                   lifecycleVars, last, nReq>>

\* Faulty variant: the error of the first failure is the one kept.
RetrySettleKeepsFirstError ==
    /\ arg.fn = "retry" /\ ret.pc = "await"
    /\ ret' =
        IF arg.outcomes[ret.calls] = "fulfils"
        THEN [ret EXCEPT !.pc = "resolved", !.done = TRUE, !.pending = @ - 1,
                         !.value = ret.calls]
        ELSE IF ret.i = arg.maxRetries
        THEN [ret EXCEPT !.pc = "rejected", !.done = TRUE, !.pending = @ - 1,
                         !.lastError = IF @ = Undefined THEN ret.calls ELSE @,
                         !.value = IF ret.lastError = Undefined
                                   THEN ret.calls ELSE ret.lastError]
        ELSE [ret EXCEPT !.pc = "sleep", !.pending = @ - 1,
                         !.lastError = IF @ = Undefined THEN ret.calls ELSE @,
                         !.delay = arg.baseDelay * 2^ret.i]
    /\ UNCHANGED <<arg, adapterVars>>
    /\ UNCHANGED <<httpTransports, sessionVars, statelessVars, registryVars,
                   lifecycleVars, last, nReq>>

\* The promise of fn settles: return await fn(), or the catch block, which
\* leaves the loop after the last attempt and otherwise starts the timer.
RetrySettle ==
    /\ arg.fn = "retry" /\ ret.pc = "await"
    /\ ret' =
        IF arg.outcomes[ret.calls] = "fulfils"
        THEN [ret EXCEPT !.pc = "resolved", !.done = TRUE, !.pending = @ - 1,
                         !.value = ret.calls]
        ELSE IF ret.i = arg.maxRetries
        THEN [ret EXCEPT !.pc = "rejected", !.done = TRUE, !.pending = @ - 1,
                         !.lastError = ret.calls, !.value = ret.calls]
        ELSE [ret EXCEPT !.pc = "sleep", !.pending = @ - 1,
                         !.lastError = ret.calls,
                         !.delay = arg.baseDelay * 2^ret.i]
    /\ UNCHANGED <<arg, adapterVars>>
    /\ UNCHANGED <<httpTransports, sessionVars, statelessVars, registryVars,
                   lifecycleVars, last, nReq>>

\* The timer fires: the loop goes on with i++.
RetryTimer ==
    /\ arg.fn = "retry" /\ ret.pc = "sleep"
    /\ ret' = [ret EXCEPT !.pc = "loop", !.i = @ + 1]
    /\ UNCHANGED <<arg, adapterVars>>
    /\ UNCHANGED <<httpTransports, sessionVars, statelessVars, registryVars,
                   lifecycleVars, last, nReq>>

\* Async.retry has been called: maxRetries is -1 (no attempt at all) or
\* more, and fn fulfils or rejects at each of its calls.
RetryInit ==
    /\ Constructed /\ Started /\ AdaptersIdle
    /\ \E m \in -1..MaxRetries :
          arg \in [fn : {"retry"}, maxRetries : {m}, baseDelay : {0, 1000},
                   outcomes : [1..(m + 1) -> {"fulfils", "rejects"}]]
    /\ ret = [done |-> FALSE, pc |-> "loop", i |-> 0, calls |-> 0,
              pending |-> 0, lastError |-> Undefined, delay |-> 0,
              value |-> Undefined]

\* Every promise of fn settles and every timer fires.
RetrySpec ==
    /\ RetryInit
    /\ [][RetryCall \/ RetrySettle \/ RetryTimer]_vars
    /\ WF_vars(RetryCall \/ RetrySettle \/ RetryTimer)

----------------------------------------------------------------------------
\* middleware/auth.ts: MetricsMiddleware. A request passes the middleware
\* and its response is sent with res.json; the response time recorded for it
\* is the number of the request, so that the entries of the list tell the
\* order of arrival.

\* The length at which the list starts to drop its oldest entry
\* (responseTimes.length > 1000).
ResponseTimesKept == 1000

\* middleware(req, res, next), then the res.json it installed: shift() when
\* the list is longer than ResponseTimesKept, then push(responseTime).
MetricsExchange ==
    /\ metrics.totalRequests < ResponseTimesKept + MaxRequests
    /\ metrics' =
         [totalRequests |-> metrics.totalRequests + 1,
          responseTimes |->
              Append(IF Len(metrics.responseTimes) > ResponseTimesKept
                     THEN Tail(metrics.responseTimes)
                     ELSE metrics.responseTimes,
                     metrics.totalRequests + 1)]
    /\ UNCHANGED <<arg, ret, limiter, instances, logger, zodCache>>
    /\ UNCHANGED <<httpTransports, sessionVars, statelessVars, registryVars,
                   lifecycleVars, last, nReq>>

MetricsSpec == Init /\ [][MetricsExchange]_vars

----------------------------------------------------------------------------
\* core/server.ts: Logger and the module's one `logger`, which every
\* QuickMCPServer constructor configures. ret holds the logger call made
\* last: whether it wrote, and to which stream.

\* shouldLog(level)
shouldLog(config, level) ==
    LET levels == [debug |-> 0, info |-> 1, warn |-> 2, error |-> 3]
    IN  config.enabled /\ levels[level] >= levels[config.level]

\* log(level, message): console.error writes to stderr, console.log to stdout
log(config, level) ==
    [done |-> TRUE, level |-> level, wrote |-> shouldLog(config, level),
     stream |-> IF config.useStderr THEN "stderr" ELSE "stdout"]

\* new QuickMCPServer({transport, debug}): logger.configure(...), then
\* logger.info('QuickMCP Server created: ...').
NewQuickMCPServer(transport, debug) ==
    /\ Len(instances) <= MaxTransports
    /\ instances' = Append(instances, [transport |-> transport, debug |-> debug])
    /\ logger' = [level |-> IF debug THEN "debug" ELSE "info",
                  enabled |-> TRUE,
                  useStderr |-> (transport = "stdio")]
    /\ arg' = [fn |-> "log", by |-> Len(instances) + 1]
    /\ ret' = log(logger', "info")
    /\ UNCHANGED <<limiter, metrics, zodCache>>
    /\ UNCHANGED <<httpTransports, sessionVars, statelessVars, registryVars,
                   lifecycleVars, last, nReq>>

\* One of the servers logs: logger.debug, info, warn or error.
LoggerCall(s, level) ==
    /\ s \in 1..Len(instances)
    /\ arg' = [fn |-> "log", by |-> s]
    /\ ret' = log(logger, level)
    /\ UNCHANGED adapterVars
    /\ UNCHANGED <<httpTransports, sessionVars, statelessVars, registryVars,
                   lifecycleVars, last, nReq>>

LoggerSpec ==
    Init /\ [][\/ \E transport \in {"stdio", "http"}, debug \in BOOLEAN :
                     NewQuickMCPServer(transport, debug)
               \/ \E s \in 1..(MaxTransports + 1),
                     level \in {"debug", "info", "warn", "error"} :
                     LoggerCall(s, level)]_vars

----------------------------------------------------------------------------
\* core/performance/cache-manager.ts: SchemaCache. A SimpleSchema is given
\* by its leaves: the path of property names that leads to each string in
\* it, and that string. A nested object schema { type: 'object', properties }
\* has the leaf <<.., "type">> and the leaves of its properties below
\* <<.., "properties">>. The order of the properties is left out: the key
\* lists them in the order of the replacer, whatever the order of the schema.

SchemaObject(name, property, type) ==
    {[path |-> <<name, "type">>, value |-> "object"],
     [path |-> <<name, "properties", property>>, value |-> type]}

Schemas ==
    {{[path |-> <<"name">>, value |-> "string"]},
     {[path |-> <<"name">>, value |-> "number"]},
     {[path |-> <<"name">>, value |-> "string"],
      [path |-> <<"age">>, value |-> "number"]},
     SchemaObject("user", "name", "string"),
     SchemaObject("user", "age", "number"),
     {[path |-> <<"type">>, value |-> "string"]}
        \cup SchemaObject("user", "name", "string"),
     {[path |-> <<"type">>, value |-> "string"]}
        \cup SchemaObject("user", "age", "number")}

\* generateKey(schema): JSON.stringify(schema, Object.keys(schema).sort()).
\* An array as replacer is the list of the property names to serialize, in
\* every object of the value: a nested property whose name is no top-level
\* name of the schema is left out, and an object all of whose properties are
\* left out is written {}. The text is given by what it holds: the leaves it
\* keeps and the objects it opens.
generateKey(schema) ==
    LET keys == {leaf.path[1] : leaf \in schema}
        Kept(path) == \A i \in 1..Len(path) : path[i] \in keys
        Objects == UNION {{[path |-> SubSeq(leaf.path, 1, n), value |-> "{}"] :
                              n \in 1..(Len(leaf.path) - 1)} : leaf \in schema}
    IN  {leaf \in schema : Kept(leaf.path)}
          \cup {object \in Objects : Kept(object.path)}

\* getZodSchema(generateKey(schema), factory), the factory building the Zod
\* schema of `schema`: the cached one, or the one the factory builds, which
\* is cached. A Zod schema is given by the schema it was built from.
GetZodSchema(schema) ==
    /\ nReq < MaxRequests
    /\ nReq' = nReq + 1
    /\ arg' = [fn |-> "getZodSchema", schema |-> schema]
    /\ IF generateKey(schema) \in DOMAIN zodCache
       THEN /\ ret' = [done |-> TRUE, hit |-> TRUE,
                       zod |-> zodCache[generateKey(schema)]]
            /\ UNCHANGED zodCache
       ELSE /\ ret' = [done |-> TRUE, hit |-> FALSE, zod |-> schema]
            /\ zodCache' = MapSet(zodCache, generateKey(schema), schema)
    /\ UNCHANGED <<limiter, metrics, instances, logger>>
    /\ UNCHANGED <<httpTransports, sessionVars, statelessVars, registryVars,
                   lifecycleVars, last>>

SchemaCacheSpec == Init /\ [][\E schema \in Schemas : GetZodSchema(schema)]_vars

----------------------------------------------------------------------------
\* Properties.

\* The step handled a new HTTP request.
Handled == nReq' = nReq + 1

\* Session ids whose transport has been closed.
ClosedIds ==
    {transports[t].sessionId :
        t \in {u \in 1..Len(transports) : transports[u].closed}} \ {Undefined}

\* C1: in session mode an entry is added to (or set in) the session table
\* only by a step that handles a POST without session header whose method
\* is initialize; no GET, DELETE, POST with a header, non-handshake POST,
\* handler completion or socket event adds one.
C1_EntryAddedOnlyByHandshake ==
    [][(\E s \in DOMAIN httpTransports' :
            s \notin DOMAIN httpTransports \/ httpTransports'[s] # httpTransports[s])
        => (/\ Handled
            /\ last'.verb = "POST"
            /\ last'.hdr = Undefined
            /\ last'.method = "initialize")]_vars

C1_Witness ==
    /\ last.verb = "POST" /\ last.hdr = Undefined /\ last.method = "initialize"
    /\ last.status = 200
    /\ last.sessionHeader \in DOMAIN httpTransports
    /\ nReq >= 3

\* C2: a request whose session header names an id absent from the table,
\* a handshake POST included, is rejected with 400, reaches no transport,
\* creates no transport, connects nothing to the engine and leaves the
\* session table as it was.
C2_UnknownIdRejected ==
    [][(Handled /\ last'.hdr # Undefined /\ ~KnownSession(last'.hdr))
        => (/\ last'.status = 400
            /\ last'.t = Undefined
            /\ UNCHANGED <<httpTransports, transports, mcpServer, inflight, sse>>)]_vars

C2_Witness ==
    /\ last.verb = "POST" /\ last.method = "initialize" /\ last.valid
    /\ last.hdr # Undefined /\ ~KnownSession(last.hdr)
    /\ last.status = 400
    /\ DOMAIN httpTransports # {}

\* C3: a valid handshake POST without session header mints exactly one
\* session id, different from every id minted before; the id is returned
\* with the 200 response, and the table maps it to the transport constructed
\* for this handshake; every id of the table routes to the transport that
\* carries this id.
C3_HandshakeMintsOneRoutableId ==
    /\ [][(Handled /\ last'.verb = "POST" /\ last'.hdr = Undefined
             /\ last'.method = "initialize" /\ last'.valid
             /\ uncaught' = uncaught)
          => LET sid == last'.sessionHeader
                 t == Len(transports) + 1
             IN /\ sid # Undefined
                /\ sid \notin Minted
                /\ Len(transports') = t
                /\ \A u \in 1..Len(transports) :
                       transports'[u].sessionId = transports[u].sessionId
                /\ transports'[t].sessionId = sid
                /\ httpTransports' = MapSet(httpTransports, sid, t)
                /\ sid \notin DOMAIN httpTransports
                /\ last'.status = 200]_vars
    /\ [](\A s \in DOMAIN httpTransports :
             transports[httpTransports[s]].sessionId = s)

C3_Witness ==
    /\ Cardinality(DOMAIN httpTransports) = 2
    /\ last.verb = "POST" /\ last.method = "tools/call" /\ last.status = 0
    /\ KnownSession(last.hdr)
    /\ last.t = httpTransports[last.hdr]
    /\ \E r \in inflight : r.n = last.n /\ r.t = last.t

\* C4: every session of the table is bound to an engine of its own: the
\* transports of two different sessions are connected to different engines,
\* and the engine that serves a session holds that session's transport.
C4_OneEnginePerSession ==
    /\ \A s1, s2 \in DOMAIN httpTransports :
           s1 # s2 => transports[httpTransports[s1]].server
                        # transports[httpTransports[s2]].server
    /\ \A s \in DOMAIN httpTransports :
           mcpServer.transport = httpTransports[s]

\* C5: a request forwarded on a session is answered on the transport of that
\* session, whatever happens to other sessions meanwhile: when its handler
\* completes while its own stream and transport are still open, the response
\* is written on the transport the request arrived on.
C5_ResponseOnOwnTransport ==
    [][\A r \in inflight :
          ((\A q \in inflight' : q.n # r.n)
              /\ r.open /\ ~transports[r.t].closed)
          => delivered' = Append(delivered, [n |-> r.n, t |-> r.t])]_vars

\* C6: a DELETE that carries a session id of the table is answered with 200;
\* when it completes the id is no longer in the table and the transport of
\* the session is closed.
C6_DeleteRemovesAndCloses ==
    [][(Handled /\ last'.verb = "DELETE" /\ KnownSession(last'.hdr))
        => (/\ last'.status = 200
            /\ last'.hdr \notin DOMAIN httpTransports'
            /\ transports'[httpTransports[last'.hdr]].closed
            /\ ~transports[httpTransports[last'.hdr]].closed)]_vars

C6_Witness ==
    /\ last.verb = "DELETE" /\ last.status = 200
    /\ last.t # Undefined /\ transports[last.t].closed
    /\ transports[last.t].sessionId = last.hdr
    /\ last.hdr \notin DOMAIN httpTransports

\* C7: the first DELETE for a session id succeeds and the second is rejected
\* with 400 and changes nothing; no id whose session has been terminated is
\* in the table in any later state.
C7_SecondDeleteRejected ==
    /\ [][(Handled /\ last'.verb = "DELETE" /\ last'.hdr \in ClosedIds)
          => (/\ last'.status = 400
              /\ UNCHANGED <<httpTransports, transports, mcpServer>>)]_vars
    /\ [][(Handled /\ last'.verb = "DELETE" /\ last'.status = 200)
          => (last'.hdr \notin ClosedIds /\ last'.hdr \in ClosedIds')]_vars
    /\ [](ClosedIds \cap DOMAIN httpTransports = {})

C7_Witness ==
    /\ last.verb = "DELETE" /\ last.status = 400
    /\ last.hdr \in ClosedIds
    /\ DOMAIN httpTransports # {}

\* C8: when the client of a session of the table drops its connections, the
\* entry of the session is eventually removed from the table.
C8_DroppedClientCleanedUp ==
    \A s \in SessionIds :
        (s \in gone /\ s \in DOMAIN httpTransports)
            ~> (s \notin DOMAIN httpTransports)

\* C9: no two requests of the same session are being processed by the engine
\* at the same time.
C9_OneInFlightPerSession ==
    \A r1, r2 \in inflight : r1.t = r2.t => r1.n = r2.n

\* C10: the responses to the requests of one session are written in the
\* order in which the requests were issued.
C10_ResponsesInRequestOrder ==
    \A i, j \in 1..Len(delivered) :
        (i < j /\ delivered[i].t = delivered[j].t)
            => delivered[i].n < delivered[j].n

\* C14: in session mode every request rejected for a missing or unknown
\* session id, on POST, GET and DELETE alike, is answered with 400 and a
\* JSON-RPC error of code -32000 and reaches no transport.
C14_RejectionIsJsonRpcError ==
    [][(/\ Handled
        /\ ~KnownSession(last'.hdr)
        /\ ~(last'.verb = "POST" /\ last'.hdr = Undefined
               /\ last'.method = "initialize"))
        => (/\ last'.status = 400
            /\ last'.error = "jsonrpc-32000"
            /\ last'.t = Undefined)]_vars

\* C15: a POST without session header whose method is not initialize is
\* answered with 400 and JSON-RPC error -32000; no transport is constructed,
\* nothing is connected to the engine and the session table is unchanged.
C15_HeaderlessCallRejected ==
    [][(Handled /\ last'.verb = "POST" /\ last'.hdr = Undefined
          /\ last'.method # "initialize")
        => (/\ last'.status = 400
            /\ last'.error = "jsonrpc-32000"
            /\ last'.t = Undefined
            /\ UNCHANGED <<httpTransports, transports, mcpServer, inflight>>)]_vars

C15_Witness ==
    /\ last.verb = "POST" /\ last.hdr = Undefined /\ last.method # "initialize"
    /\ last.valid
    /\ last.status = 400
    /\ DOMAIN httpTransports # {}
    /\ mcpServer.transport # Undefined

\* C17: the termination of a session removes the table entry of that session
\* only, and the completion or failure of a handler and the loss of a client
\* remove none: the entry of every other session stays as it was.
C17_OtherEntriesUntouched ==
    /\ [][(Handled /\ last'.verb = "DELETE")
          => \A s \in DOMAIN httpTransports \ {last'.hdr} :
                 s \in DOMAIN httpTransports'
                     /\ httpTransports'[s] = httpTransports[s]]_vars
    /\ [][~Handled => httpTransports' = httpTransports]_vars

C17_Witness ==
    /\ last.verb = "DELETE" /\ last.status = 200
    /\ last.hdr \notin DOMAIN httpTransports
    /\ DOMAIN httpTransports # {}

\* C18 as stated: when a registered callback of any kind throws, the wrapper
\* returns an error-content response instead of letting the error out, and
\* the table is as it was.
C18_EveryWrapperCatches ==
    [][(settled'.n # settled.n /\ settled'.threw)
        => (/\ ~settled'.propagated
            /\ settled'.result = "error-content"
            /\ httpTransports' = httpTransports)]_vars

\* C18 as amended: when a tool callback throws, the wrapper returns an
\* error-content response; when a resource or prompt callback throws, the
\* wrapper throws the error on to the engine; in each case the session table
\* is as it was, so the session of the call stays in it.
C18_ToolWrapperCatchesOthersRethrow ==
    [][(settled'.n # settled.n /\ settled'.threw)
        => (/\ settled'.method = "tools/call"
                  => (~settled'.propagated /\ settled'.result = "error-content")
            /\ settled'.method \in {"resources/read", "prompts/get"}
                  => (settled'.propagated /\ settled'.result = "none")
            /\ httpTransports' = httpTransports)]_vars

C18_Witness ==
    /\ settled.threw /\ settled.method = "tools/call"
    /\ settled.result = "error-content"
    /\ \E s \in DOMAIN httpTransports : httpTransports[s] = settled.t

\* C16: in session mode, when connect or handleRequest throws while a POST
\* is handled, the client receives 500 with JSON-RPC error -32603 and the
\* session id of the request is not in the table afterwards.
C16_FaultAnsweredWith500 ==
    [][\A n \in uncaught' \ uncaught :
          /\ last'.n = n
          /\ last'.status = 500
          /\ last'.error = "jsonrpc-32603"
          /\ last'.hdr \notin DOMAIN httpTransports']_vars

C12_StatelessPairsIndependent ==
    /\ [](\A i, j \in 1..Len(slExchanges) :
            i # j => /\ slExchanges[i].server # slExchanges[j].server
                     /\ slExchanges[i].transport # Undefined
                          => slExchanges[i].transport # slExchanges[j].transport)
    /\ [][\A i, j \in 1..Len(slExchanges) :
            (i # j /\ slExchanges[i].res = "open" /\ slExchanges'[i].res = "closed")
            => LET y == slExchanges[j] IN
               /\ slServers'[y.server] = slServers[y.server]
               /\ y.transport # Undefined
                    => slTransports'[y.transport] = slTransports[y.transport]]_vars

C12_Witness ==
    \E i, j \in 1..Len(slExchanges) :
        /\ slExchanges[i].res = "closed" /\ slExchanges[i].listener
        /\ slExchanges[j].res = "open" /\ slExchanges[j].pending
        /\ ~slTransports[slExchanges[j].transport].closed
        /\ ~slServers[slExchanges[j].server].closed
        /\ slServers[slExchanges[j].server].transport = slExchanges[j].transport

\* C13: in stateless mode the session table is empty in every state, no
\* transport has a session id and no response carries a session id header.
C13_StatelessNoSessions ==
    /\ DOMAIN httpTransports = {}
    /\ \A t \in 1..Len(slTransports) : slTransports[t].sessionId = Undefined
    /\ \A i \in 1..Len(slExchanges) : slExchanges[i].sessionHeader = Undefined
    /\ last.sessionHeader = Undefined

C13_Witness ==
    \E i, j \in 1..Len(slExchanges) :
        /\ i # j
        /\ slExchanges[i].status = 200 /\ slExchanges[i].res = "open"
        /\ slExchanges[j].status = 200 /\ slExchanges[j].res = "open"

\* C19: in stateless mode every GET and every DELETE is answered with 405 and
\* JSON-RPC error -32000 and builds no engine and no transport.
C19_StatelessGetDelete405 ==
    [][last' # last
        => (/\ last'.verb \in {"GET", "DELETE"}
            /\ last'.n = nReq + 1
            /\ last'.status = 405
            /\ last'.error = "jsonrpc-32000"
            /\ UNCHANGED <<slServers, slTransports, slExchanges>>)]_vars

C19_Witness ==
    /\ last.verb = "DELETE" /\ last.status = 405
    /\ Len(slExchanges) >= 1
    /\ \E i \in 1..Len(slExchanges) : slExchanges[i].pending

----------------------------------------------------------------------------
\* C20: a tools/call forwarded through an ACTIVE session invokes exactly the
\* handler most recently registered under the name in params.name, once,
\* and no other handler.
C20_CallInvokesLatestRegistered ==
    [][Len(invoked') = Len(invoked) + 1 =>
         LET call == invoked'[Len(invoked')] IN
         /\ call.n \notin Dispatched
         /\ call.name \in DOMAIN registry => call.handler = registry[call.name]
         /\ call.name \notin DOMAIN registry => call.handler = Undefined]_vars
----------------------------------------------------------------------------
\* The entries of a Map of the registry as a function from names to handlers.
AsFunction(m) == [n \in Range(MapKeys(m)) |-> MapGet(m, n)]

\* The registry and the engine for one kind of unit, before and after a step.
RegistryOf(kind) ==
    CASE kind = "tool" -> registry
      [] kind = "resource" -> AsFunction(resources)
      [] OTHER -> AsFunction(prompts)

RegistryAfter(kind) ==
    CASE kind = "tool" -> registry'
      [] kind = "resource" -> AsFunction(resources')
      [] OTHER -> AsFunction(prompts')

EngineAfter(kind) ==
    CASE kind = "tool" -> engineTools'
      [] kind = "resource" -> engineResources'
      [] OTHER -> enginePrompts'

\* C23 as stated: registering a unit under a name already registered for its
\* kind completes without error and replaces the record: afterwards the
\* registry and the engine both hold the new handler under that name.
C23_LastWriteWins ==
    [][(registered' # registered
          /\ registered'.name \in DOMAIN RegistryOf(registered'.kind))
       => /\ ~registered'.threw
          /\ RegistryAfter(registered'.kind)[registered'.name]
                = registered'.handler
          /\ EngineAfter(registered'.kind)[registered'.name]
                = registered'.handler]_vars

Kinds == {"tool", "resource", "prompt"}

\* The names a listing returns, in its order, before and after a step.
Listed(kind) ==
    CASE kind = "tool" -> MapKeys(getTools)
      [] kind = "resource" -> MapKeys(getResources)
      [] OTHER -> MapKeys(getPrompts)

ListedAfter(kind) ==
    CASE kind = "tool" -> MapKeys(getTools')
      [] kind = "resource" -> MapKeys(getResources')
      [] OTHER -> MapKeys(getPrompts')

\* C24: a listing holds one record per distinct registered name, in the order
\* of first registration: a registration of a new name adds it at the end,
\* one of a known name changes neither the names nor their order, and the
\* counts of getStats() are the numbers of distinct names.
C24_ListingInFirstRegistrationOrder ==
    /\ [][registered' # registered =>
            \A kind \in Kinds :
              ListedAfter(kind) =
                IF kind # registered'.kind
                   \/ registered'.name \in Range(Listed(kind))
                THEN Listed(kind)
                ELSE Append(Listed(kind), registered'.name)]_vars
    /\ [](/\ getStats.tools = Cardinality(Range(Listed("tool")))
          /\ getStats.resources = Cardinality(Range(Listed("resource")))
          /\ getStats.prompts = Cardinality(Range(Listed("prompt"))))

\* Two tools registered, the first of them registered again afterwards.
C24_Witness ==
    /\ Len(toolOrder) = 2
    /\ registered = Registration("tool", toolOrder[1], registry[toolOrder[1]], TRUE)
    /\ Len(resources) = 2
    /\ getStats.tools = 2
----------------------------------------------------------------------------
\* The item is a content item: it has a type.
Typed(item) == item.type # "none"

\* The value is a response: an object whose content is an array.
IsResponse(value) == value.t = "object" /\ value.content = "array"

C22_ArrayBecomesMultipleContent ==
    (/\ ret.done /\ arg.fn = "tool" /\ arg.outcome = "returns"
     /\ arg.value.t = "array"
     /\ Len(arg.value.items) > 0
     /\ \A i \in 1..Len(arg.value.items) : Typed(arg.value.items[i]))
    => ret.value.items = arg.value.items
----------------------------------------------------------------------------
\* The request carries a token, and the validator of the configured type
\* accepts it without throwing.
Authenticated(req) ==
    /\ \/ req.scheme = "" /\ req.xApiKey # ""
       \/ req.scheme \in {"Bearer ", "ApiKey "} /\ req.credentials # ""
    /\ \/ req.type = "bearer" /\ req.secret /\ req.jwtVerifies
       \/ req.type = "api-key" /\ req.apiKeys = "some" /\ req.keyMatches
       \/ req.type = "custom" /\ req.verify = "true"

\* C25: for every request the auth adapter either calls next() once and
\* sends nothing, which it does only for an authenticated request, or sends
\* 401 with the JSON-RPC error code -32001 and does not call next(); an
\* exception of the validation or of the user extraction ends in the 401.
C25_NextOrUnauthorized ==
    (ret.done /\ arg.fn = "auth") =>
        /\ \/ ret.nextCalls = 1 /\ ret.status = 0
           \/ ret.nextCalls = 0 /\ ret.status = 401 /\ ret.code = -32001
        /\ ret.nextCalls = 1 => Authenticated(arg)
        /\ (arg.verify = "throws" /\ arg.type = "custom") => ret.status = 401
        /\ arg.extractUser = "throws" => ret.status = 401

\* A valid token whose user extraction throws has been refused.
C25_Witness ==
    /\ ret.done /\ arg.fn = "auth"
    /\ Authenticated(arg) /\ arg.extractUser = "throws"
    /\ ret.status = 401 /\ ret.nextCalls = 0
----------------------------------------------------------------------------
\* C26: for every request the rate-limit adapter calls next() and sends
\* nothing when the key of the request had a point left, and otherwise
\* replies 429 with a Retry-After header and a JSON-RPC error body without
\* calling next(); it never does both.
C26_NextOr429 ==
    [][nReq' = nReq + 1 =>
         LET before == consumedPoints(limiter, limiterKey(arg'.ip)) IN
         /\ ret'.nextCalls + (IF ret'.status = 0 THEN 0 ELSE 1) = 1
         /\ before < Points =>
              ret'.nextCalls = 1 /\ ret'.status = 0 /\ ret'.retryAfter = ""
         /\ before >= Points =>
              /\ ret'.nextCalls = 0 /\ ret'.status = 429
              /\ ret'.code = -32000 /\ ret'.retryAfter # ""]_vars

\* A request has been refused while the other client still has its points.
C26_Witness ==
    /\ ret.done /\ arg.fn = "rateLimit"
    /\ ret.status = 429 /\ ret.nextCalls = 0
    /\ consumedPoints(limiter, limiterKey(arg.ip)) = Points + 1
    /\ \E ip \in Ips : consumedPoints(limiter, limiterKey(ip)) < Points
----------------------------------------------------------------------------
----------------------------------------------------------------------------
\* C28 as stated: between two stops the listener is started at most once,
\* however often start() is called and also when a second start() is called
\* before the first has finished.
C28_ListenerStartedOnce == listenCalls <= 1

\* C29: when stop() returns on a started server, every transport that was in
\* the session table is closed, the table is empty and isStarted is false;
\* on a server that is not started stop() changes nothing.
C29_StopClosesEverySession ==
    /\ [][(isStarted /\ ~isStarted') =>
            /\ DOMAIN httpTransports' = {}
            /\ \A k \in DOMAIN httpTransports :
                  transports'[httpTransports[k]].closed]_vars
    /\ [](~isStarted => stop(Server) = Server)

\* Two sessions were established and stop() has closed both.
C29_Witness ==
    /\ ~isStarted
    /\ nReq = 2
    /\ Len(transports) = 2
    /\ \A t \in 1..2 : transports[t].closed /\ transports[t].sessionId # Undefined
    /\ DOMAIN httpTransports = {}

\* C30 as stated: whenever the server is not started, the session table is
\* empty.
C30_NoSessionsWhileStopped == ~isStarted => DOMAIN httpTransports = {}

----------------------------------------------------------------------------
\* C31 as stated: every transport the router has constructed is from then on
\* in the session table or is eventually closed, so a handshake that does
\* not establish a session leaves no open transport behind.
C31_TransportRegisteredOrClosed ==
    \A t \in 1..MaxTransports :
        [](Len(transports) >= t =>
             <>(\/ \E k \in DOMAIN httpTransports : httpTransports[k] = t
                \/ (Len(transports) >= t /\ transports[t].closed)))

\* The handler the engine of session mode holds for a unit of a kind.
EngineOf(kind) ==
    CASE kind = "tool" -> engineTools
      [] kind = "resource" -> engineResources
      [] OTHER -> enginePrompts

\* C32 as stated: after any sequence of tool(), resource() and prompt()
\* calls the handler the registry records for a name is the handler the
\* shared engine holds for it, so that the engine of session mode and an
\* engine built from the registry dispatch the name to the same handler.
C32_RegistryAgreesWithEngine ==
    \A kind \in Kinds :
        /\ DOMAIN RegistryOf(kind) = DOMAIN EngineOf(kind)
        /\ \A name \in DOMAIN RegistryOf(kind) :
              RegistryOf(kind)[name] = EngineOf(kind)[name]

\* C39 as stated: the Retry-After value sent with a 429 is a whole number of
\* seconds that is at least 1, whatever msBeforeNext the limiter reports.
C39_RetryAfterAtLeastOne ==
    (ret.done /\ arg.fn = "rateLimit" /\ ret.status = 429) =>
        ret.retryAfter \notin {"", "0"}

\* C34: normalizing a normalized value changes nothing, and a handler the
\* decorator has wrapped, whose value the server's wrapper normalizes a
\* second time, gives the response the bare handler gives.
C34_NormalizeIdempotent ==
    (ret.done /\ arg.fn = "tool") =>
        /\ ~normalizeResponse(arg.value).threw =>
              normalizeResponse(normalizeResponse(arg.value).value)
                  = normalizeResponse(arg.value)
        /\ ret.value = wrappedToolHandler(arg.outcome, arg.value)

\* The wrapper has returned for a decorated method whose object the first
\* normalization had to serialize.
C34_Witness ==
    /\ ret.done /\ arg.fn = "tool" /\ arg.outcome = "returns" /\ arg.decorated
    /\ arg.value = ObjectValue("{\"result\":42}", "absent")
    /\ ret.value = response(<<text("{\"result\":42}")>>)

\* C33 as stated: the handler of a resource is called with the record
\* {uri: <string>, params}, uri being the URI that was read, whether the
\* read goes through the long-lived engine or through the engine of a
\* stateless request.
C33_SameArgumentInBothModes ==
    (ret.done /\ arg.fn = "read") =>
        /\ ret.args.uri = arg.href
        /\ ret.args.params
             = (IF arg.isTemplate THEN arg.variables ELSE "undefined")

\* The first call of fn that fulfils, or 0 when every call rejects.
FirstFulfilled ==
    IF \E k \in DOMAIN arg.outcomes : arg.outcomes[k] = "fulfils"
    THEN CHOOSE k \in DOMAIN arg.outcomes :
            /\ arg.outcomes[k] = "fulfils"
            /\ \A j \in 1..(k - 1) : arg.outcomes[j] = "rejects"
    ELSE 0

\* C35: Async.retry calls fn at most maxRetries+1 times and one call at a
\* time; it resolves with the result of the first call that fulfils, having
\* made no later call; when all maxRetries+1 calls reject it rejects with
\* the error of the last one; and it settles in the end.
C35_RetryBoundedAndSettles ==
    /\ [](arg.fn = "retry" =>
            /\ ret.calls <= arg.maxRetries + 1
            /\ ret.pending <= 1
            /\ ret.pc = "resolved" =>
                  /\ FirstFulfilled # 0
                  /\ ret.value = FirstFulfilled /\ ret.calls = FirstFulfilled
            /\ (ret.pc = "rejected" /\ arg.maxRetries >= 0) =>
                  /\ FirstFulfilled = 0
                  /\ ret.calls = arg.maxRetries + 1
                  /\ ret.value = arg.maxRetries + 1)
    /\ <>(ret.pc \in {"resolved", "rejected"})

\* A retry has rejected after its third failure in a row.
C35_Witness ==
    /\ arg.fn = "retry" /\ arg.maxRetries = 2
    /\ ret.pc = "rejected" /\ ret.calls = 3 /\ ret.value = 3

\* C36 as stated: the list of response times never holds more than 1000
\* entries, and it holds the most recent ones in the order of arrival.
C36_AtMostLastThousand ==
    /\ Len(metrics.responseTimes) <= 1000
    /\ \A k \in 1..Len(metrics.responseTimes) :
          metrics.responseTimes[k] =
              metrics.totalRequests - Len(metrics.responseTimes) + k

\* C37 as stated: while a server configured for stdio exists, what the
\* logger writes goes to stderr and never to stdout, whatever other servers
\* have been constructed.
C37_StdioServerLogsToStderr ==
    (/\ arg.fn = "log" /\ ret.done /\ ret.wrote
     /\ \E s \in 1..Len(instances) : instances[s].transport = "stdio")
        => ret.stream = "stderr"

\* C38 as stated: the Zod schema a lookup returns for a schema was built by
\* the factory of an equal schema, and the two were built from the same
\* schema whenever the lookup was no hit.
C38_ValidatorOfEqualSchema ==
    (arg.fn = "getZodSchema" /\ ret.done) =>
        /\ ret.zod = arg.schema
        /\ zodCache[generateKey(arg.schema)] = ret.zod
====
